---- MODULE Spec2Model ----
(***************************************************************************)
(* A model of the SteamDataAnalysis pipeline:                              *)
(*   - clean_and_plot.py    clean_game_data      (the Cleaner)             *)
(*   - complete_scraper.py  fetch_history, scrape_all_games (the Fetcher)  *)
(*   - csv_to_sqlite.py     parse_month_year, import_csv_to_sqlite,        *)
(*                          create_summary_views (the Store Loader)        *)
(* Tables (DataFrames, SQL tables) are sequences of records.  Month labels *)
(* are strings; splitting and number parsing are tables over the finite    *)
(* label universe, built by concatenating the words they split into.       *)
(***************************************************************************)
EXTENDS Integers, Sequences, FiniteSets, TLC

VARIABLES
    pc,                     \* position of the running program
    df,                     \* clean_game_data: the input DataFrame
    min_consecutive_months, \* clean_game_data: parameter
    cleaned,                \* clean_game_data(df)
    recleaned,              \* clean_game_data(clean_game_data(df))
    listing,                \* the (appid, name) links the listing page holds
    limit,                  \* scrape_all_games: parameter (0 for None)
    games,                  \* scrape_all_games: games
    fetched,                \* scrape_all_games: games of the loop already done
    hist,                   \* scrape_all_games: hist
    events,                 \* the HTTP requests and sleeps so far, in order
    responses,              \* what the server answered to each detail request
    scraped,                \* scrape_all_games: the DataFrame returned
    page_game,              \* fetch_history: its arguments (appid, game_name)
    detail_page,            \* fetch_history: the <tr> of the page it is answered
    extracted,              \* fetch_history: the rows it returns
    csv_exists,             \* import_csv_to_sqlite: os.path.exists(csv_file)
    csv,                    \* import_csv_to_sqlite: the rows of csv_file
    now,                    \* datetime.now() as <<year, month>>
    games_key,              \* whether table games has appid as PRIMARY KEY
    games_table,            \* the rows of table games
    player_history,         \* the rows of table player_history
    latest_view             \* the rows view latest_player_data gives

cleanerVars == <<df, min_consecutive_months, cleaned, recleaned>>
extractVars == <<page_game, detail_page, extracted>>
scraperVars == <<listing, limit, games, fetched, hist, events, responses, scraped,
                 extractVars>>
loaderVars == <<csv_exists, csv, now, games_key, games_table, player_history,
                latest_view>>
vars == <<pc, cleanerVars, scraperVars, loaderVars>>

----------------------------------------------------------------------------
(* Bounds of the model *)

MaxRows == 3        \* rows of a DataFrame given to the Cleaner
MaxMonths == 2      \* largest min_consecutive_months tried
MaxGames == 2       \* links on the listing page
MaxCsvRows == 2     \* rows of the CSV file given to the Store Loader
MaxPageRows == 3    \* <tr> of a detail page after its first one

(* Program constants *)

min_avg_players == 500      \* default threshold of clean_game_data
SleepMs == 500              \* time.sleep(0.5) in fetch_history
MinCells == 5               \* len(cells) >= 5 in fetch_history

----------------------------------------------------------------------------
(* Sequence helpers *)

Max(a, b) == IF a >= b THEN a ELSE b

Range(s) == {s[k] : k \in DOMAIN s}

SeqsUpTo(S, n) == UNION {[1..k -> S] : k \in 0..n}

RECURSIVE Flatten(_)
Flatten(ss) == IF ss = <<>> THEN <<>> ELSE Head(ss) \o Flatten(Tail(ss))

----------------------------------------------------------------------------
(* Month labels.  A label is the words it splits into, joined by blanks.   *)

MonthNames == <<"January", "February", "March", "April", "May", "June",
                "July", "August", "September", "October", "November",
                "December">>

MonthWords == Range(MonthNames) \cup {"Foo"}

YearWords == {"2019", "2020"}

\* str.split() on every label of the universe: label -> its words
LabelTable ==
    {<<w \o " " \o y, <<w, y>>>> : w \in MonthWords, y \in YearWords}
    \cup {<<"Last 30 Days", <<"Last", "30", "Days">>>>,
          <<"2020 January", <<"2020", "January">>>>,
          <<"January 2020 update", <<"January", "2020", "update">>>>,
          <<"Sept", <<"Sept">>>>}

Labels == {p[1] : p \in LabelTable}

split(label) == (CHOOSE p \in LabelTable : p[1] = label)[2]

\* int(word): defined on the decimal words only (ValueError elsewhere)
IntOf == ("2019" :> 2019) @@ ("2020" :> 2020) @@ ("30" :> 30)

\* the month number of a full month name (strptime %B / month_mapping)
MonthNumber(word) == CHOOSE k \in 1..12 : MonthNames[k] = word

----------------------------------------------------------------------------
(* clean_and_plot.py: clean_game_data *)

NaT == -1       \* pandas' not-a-time; real dates are positive
None == -1      \* meaningful_start not found; real cut indexes are >= 0

\* pd.to_datetime(label, format='%B %Y', errors='coerce'), as an ordinal
\* of the month: the whole label must be a month name and a 4-digit year.
to_datetime(label) ==
    LET parts == split(label) IN
    IF /\ Len(parts) = 2
       /\ parts[1] \in Range(MonthNames)
       /\ parts[2] \in YearWords
    THEN IntOf[parts[2]] * 12 + MonthNumber(parts[1])
    ELSE NaT

\* game_data['date'] = ... : the row with its date column (re)computed
WithDate(r) ==
    [appid |-> r.appid, game_name |-> r.game_name, month |-> r.month,
     avg_players |-> r.avg_players, peak_players |-> r.peak_players,
     date |-> to_datetime(r.month)]

\* df['game_name'].unique(): the names in order of first appearance
RECURSIVE unique(_)
unique(s) ==
    IF s = <<>> THEN <<>>
    ELSE LET rest == unique(SubSeq(s, 1, Len(s) - 1))
             last == s[Len(s)]
         IN IF last \in Range(rest) THEN rest ELSE Append(rest, last)

\* insertion of r into a date-sorted sequence, after the rows not later
RECURSIVE InsertByDate(_, _)
InsertByDate(r, s) ==
    IF s = <<>> THEN <<r>>
    ELSE IF s[Len(s)].date <= r.date THEN Append(s, r)
    ELSE Append(InsertByDate(r, SubSeq(s, 1, Len(s) - 1)), s[Len(s)])

RECURSIVE InsertionSort(_)
InsertionSort(s) ==
    IF s = <<>> THEN <<>>
    ELSE InsertByDate(s[Len(s)], InsertionSort(SubSeq(s, 1, Len(s) - 1)))

\* game_data.sort_values('date').reset_index(drop=True): the dated rows in
\* ascending order, the NaT rows after them in their original order.
sort_values(s) ==
    InsertionSort(SelectSeq(s, LAMBDA r : r.date # NaT))
    \o SelectSeq(s, LAMBDA r : r.date = NaT)

\* a scan whose cut index is one too early (idx - m)
RECURSIVE FindMeaningfulStart_OffByOne(_, _, _, _)
FindMeaningfulStart_OffByOne(game_data, idx, count, m) ==
    IF idx >= Len(game_data) THEN None
    ELSE IF game_data[idx + 1].avg_players >= min_avg_players
         THEN IF count + 1 >= m
              THEN Max(0, idx - m)
              ELSE FindMeaningfulStart_OffByOne(game_data, idx + 1, count + 1, m)
         ELSE FindMeaningfulStart_OffByOne(game_data, idx + 1, 0, m)

\* a scan that never resets the counter
RECURSIVE FindMeaningfulStart_NoReset(_, _, _, _)
FindMeaningfulStart_NoReset(game_data, idx, count, m) ==
    IF idx >= Len(game_data) THEN None
    ELSE IF game_data[idx + 1].avg_players >= min_avg_players
         THEN IF count + 1 >= m
              THEN Max(0, idx - m + 1)
              ELSE FindMeaningfulStart_NoReset(game_data, idx + 1, count + 1, m)
         ELSE FindMeaningfulStart_NoReset(game_data, idx + 1, count, m)

\* a scan that passes over the rows whose date is NaT
RECURSIVE FindMeaningfulStart_SkipNaT(_, _, _, _)
FindMeaningfulStart_SkipNaT(game_data, idx, count, m) ==
    IF idx >= Len(game_data) THEN None
    ELSE IF game_data[idx + 1].date = NaT
         THEN FindMeaningfulStart_SkipNaT(game_data, idx + 1, count, m)
    ELSE IF game_data[idx + 1].avg_players >= min_avg_players
         THEN IF count + 1 >= m
              THEN Max(0, idx - m + 1)
              ELSE FindMeaningfulStart_SkipNaT(game_data, idx + 1, count + 1, m)
         ELSE FindMeaningfulStart_SkipNaT(game_data, idx + 1, 0, m)

\* the iterrows loop from row idx (0-based) with the counter at count
RECURSIVE FindMeaningfulStart(_, _, _, _)
FindMeaningfulStart(game_data, idx, count, m) ==
    IF idx >= Len(game_data) THEN None
    ELSE IF game_data[idx + 1].avg_players >= min_avg_players
         THEN IF count + 1 >= m
              THEN Max(0, idx - m + 1)
              ELSE FindMeaningfulStart(game_data, idx + 1, count + 1, m)
         ELSE FindMeaningfulStart(game_data, idx + 1, 0, m)

\* df[df['game_name'] == game_name] with the date column, sorted
GameData(table, game_name) ==
    LET rows == SelectSeq(table, LAMBDA r : r.game_name = game_name)
    IN sort_values([k \in DOMAIN rows |-> WithDate(rows[k])])

\* a slice that starts one row after meaningful_start
KeepFrom_AfterStart(game_data, meaningful_start) ==
    IF meaningful_start # None
    THEN SubSeq(game_data, meaningful_start + 2, Len(game_data))
    ELSE game_data

\* the rows kept once the scan has ended with meaningful_start
KeepFrom(game_data, meaningful_start) ==
    IF meaningful_start # None
    THEN SubSeq(game_data, meaningful_start + 1, Len(game_data))
    ELSE game_data

\* one iteration of the loop over the game names
CleanOneGame(table, game_name, m) ==
    LET game_data == GameData(table, game_name)
    IN KeepFrom(game_data, FindMeaningfulStart(game_data, 0, 0, m))

clean_game_data(table, m) ==
    LET names == unique([k \in DOMAIN table |-> table[k].game_name])
        cleaned_games == [k \in DOMAIN names |-> CleanOneGame(table, names[k], m)]
    IN IF cleaned_games # <<>> THEN Flatten(cleaned_games) ELSE table

----------------------------------------------------------------------------
(* Inputs of the Cleaner *)

\* (appid, game_name): two titles share the name "A"
CleanerGames == {<<1, "A">>, <<2, "A">>, <<3, "B">>}
CleanerLabels == {"January 2020", "February 2020", "Last 30 Days"}
AvgValues == {0, 500}
PeakValues == {1000}

Observation(g, l, a, p) ==
    [appid |-> g[1], game_name |-> g[2], month |-> l,
     avg_players |-> a, peak_players |-> p]

CleanerRows ==
    {Observation(g, l, a, p) :
        g \in CleanerGames, l \in CleanerLabels, a \in AvgValues, p \in PeakValues}

\* the series of section 8 of the specification, latest month first as
\* the scraped pages list it
ExampleLabels == <<"January 2020", "February 2020", "March 2020", "April 2020",
                   "May 2020", "June 2020", "July 2020", "August 2020">>
ExampleValues == <<0, 0, 600, 700, 400, 800, 900, 900>>
ExampleTable ==
    [k \in 1..8 |-> Observation(<<3, "B">>, ExampleLabels[9 - k],
                                ExampleValues[9 - k], 1000)]

\* within one game_id the month labels are distinct (one row per month of
\* the game's page)
UniqueMonths(table) ==
    \A i, j \in DOMAIN table :
        (table[i].appid = table[j].appid /\ table[i].month = table[j].month)
            => i = j

CleanerTables ==
    {t \in SeqsUpTo(CleanerRows, MaxRows) : UniqueMonths(t)} \cup {ExampleTable}

\* the Fetcher before it is started
ScraperIdle ==
    /\ listing = <<>>
    /\ limit = 0
    /\ games = <<>>
    /\ fetched = 0
    /\ hist = <<>>
    /\ events = <<>>
    /\ responses = <<>>
    /\ scraped = <<>>
    /\ page_game = <<0, "">>
    /\ detail_page = <<>>
    /\ extracted = <<>>

\* the Store Loader before it is started
LoaderIdle ==
    /\ csv_exists = FALSE
    /\ csv = <<>>
    /\ now = <<2020, 2>>
    /\ games_key = FALSE
    /\ games_table = <<>>
    /\ player_history = <<>>
    /\ latest_view = {}

InitClean ==
    /\ pc = "clean"
    /\ ScraperIdle
    /\ LoaderIdle
    /\ df \in CleanerTables
    /\ min_consecutive_months \in 1..MaxMonths
    /\ cleaned = <<>>
    /\ recleaned = <<>>

Clean ==
    /\ pc = "clean"
    /\ cleaned' = clean_game_data(df, min_consecutive_months)
    /\ pc' = "cleaned"
    /\ UNCHANGED <<df, min_consecutive_months, recleaned, scraperVars, loaderVars>>

Reclean ==
    /\ pc = "cleaned"
    /\ recleaned' = clean_game_data(cleaned, min_consecutive_months)
    /\ pc' = "recleaned"
    /\ UNCHANGED <<df, min_consecutive_months, cleaned, scraperVars, loaderVars>>

NextClean == Clean \/ Reclean

SpecClean == InitClean /\ [][NextClean]_vars

----------------------------------------------------------------------------
(* Properties of the Cleaner.  The Series of a game is the group of rows   *)
(* clean_game_data forms for it (the rows of one game_name), in the order  *)
(* it sorts them; observations are compared without the date column.       *)

Obs(r) ==
    [appid |-> r.appid, game_name |-> r.game_name, month |-> r.month,
     avg_players |-> r.avg_players, peak_players |-> r.peak_players]

ObsSeq(s) == [k \in DOMAIN s |-> Obs(s[k])]

NamesIn(table) == {table[k].game_name : k \in DOMAIN table}

RowsOfName(table, name) == SelectSeq(table, LAMBDA r : r.game_name = name)

Series(table, name) == ObsSeq(GameData(table, name))

OutputOf(out, name) == ObsSeq(RowsOfName(out, name))

Parseable(r) == to_datetime(r.month) # NaT

Qualifies(r) == r.avg_players >= min_avg_players

\* the m observations ending at position i (1-based) all qualify
RunEndsAt(S, i, m) ==
    /\ i \in m..Len(S)
    /\ \A k \in (i - m + 1)..i : Qualifies(S[k])

HasRun(S, m) == \E i \in 1..Len(S) : RunEndsAt(S, i, m)

\* the 0-based index of the first observation of the first run
CutIndex(S, m) ==
    LET i == CHOOSE i \in 1..Len(S) :
                 /\ RunEndsAt(S, i, m)
                 /\ \A j \in 1..(i - 1) : ~RunEndsAt(S, j, m)
    IN i - m

Suffix(S, cut) == SubSeq(S, cut + 1, Len(S))

Count(s, x) == Cardinality({k \in DOMAIN s : s[k] = x})

SameBag(s, t) == \A x \in Range(s) \cup Range(t) : Count(s, x) = Count(t, x)

\* dated observations in ascending order, undated ones after them
IsChronological(S) ==
    \A i, j \in DOMAIN S :
        i < j =>
            \/ ~Parseable(S[j])
            \/ /\ Parseable(S[i])
               /\ to_datetime(S[i].month) <= to_datetime(S[j].month)

CleanDone == pc \in {"cleaned", "recleaned"}

\* C1: when the sorted Series of a game holds a run of m consecutive
\* observations at or above the threshold, the output for the game is the
\* suffix of the Series from the first observation of the first such run,
\* hence never longer than the Series; the example of the specification
\* gives [600,700,400,800,900,900].
C1_SuffixFromFirstRun ==
    CleanDone =>
        /\ \A name \in NamesIn(df) :
              LET S == Series(df, name)
                  m == min_consecutive_months
              IN HasRun(S, m) =>
                    /\ OutputOf(cleaned, name) = Suffix(S, CutIndex(S, m))
                    /\ Len(OutputOf(cleaned, name)) <= Len(S)
        /\ (df = ExampleTable /\ min_consecutive_months = 2) =>
              [k \in DOMAIN cleaned |-> cleaned[k].avg_players]
                  = <<600, 700, 400, 800, 900, 900>>

\* a game whose first run starts after its first observation has been cut
C1_Witness ==
    /\ pc = "cleaned"
    /\ \E name \in NamesIn(df) :
          LET S == Series(df, name)
              m == min_consecutive_months
          IN /\ HasRun(S, m)
             /\ CutIndex(S, m) > 0
             /\ Len(OutputOf(cleaned, name)) < Len(S)

\* C2: when the Series of a game holds no run of m consecutive observations
\* at or above the threshold, the output for the game is the whole Series in
\* chronological order: the same observations, none removed, added or
\* altered; an empty table gives an empty output.
C2_NoRunKeepsAll ==
    CleanDone =>
        /\ \A name \in NamesIn(df) :
              LET S == Series(df, name)
                  out == OutputOf(cleaned, name)
              IN ~HasRun(S, min_consecutive_months) =>
                    /\ out = S
                    /\ SameBag(out, RowsOfName(df, name))
                    /\ IsChronological(out)
        /\ df = <<>> => cleaned = <<>>
        /\ \A name \in NamesIn(df) :
              (Len(RowsOfName(df, name)) = 1 /\ min_consecutive_months >= 2)
                  => OutputOf(cleaned, name) = RowsOfName(df, name)

\* a game with a qualifying observation but no run, given out of order
C2_Witness ==
    /\ pc = "cleaned"
    /\ \E name \in NamesIn(df) :
          LET S == Series(df, name)
          IN /\ ~HasRun(S, min_consecutive_months)
             /\ \E k \in DOMAIN S : Qualifies(S[k])
             /\ S # RowsOfName(df, name)
             /\ OutputOf(cleaned, name) = S

C4_UnparseableExcludedFromScan ==
    CleanDone =>
        \A name \in NamesIn(df) :
            LET S == Series(df, name)
                P == SelectSeq(S, Parseable)
                m == min_consecutive_months
                out == OutputOf(cleaned, name)
            IN /\ IsChronological(S)
               /\ IF HasRun(P, m) THEN out = Suffix(S, CutIndex(P, m))
                                  ELSE out = S

\* C4 amended: undated observations sort after all dated ones, in their
\* input order, and are scanned like any other observation: when the dated
\* observations alone hold no run but the whole Series does, the output
\* starts at the first run of the whole Series; when no cut point is found
\* every undated observation is still in the output.
C4_UnparseableScannedLast ==
    CleanDone =>
        \A name \in NamesIn(df) :
            LET S == Series(df, name)
                P == SelectSeq(S, Parseable)
                U == SelectSeq(S, LAMBDA r : ~Parseable(r))
                m == min_consecutive_months
                out == OutputOf(cleaned, name)
            IN /\ S = P \o U
               /\ U = SelectSeq(RowsOfName(df, name), LAMBDA r : ~Parseable(r))
               /\ (HasRun(S, m) /\ ~HasRun(P, m))
                     => out = Suffix(S, CutIndex(S, m))
               /\ ~HasRun(S, m)
                     => SelectSeq(out, LAMBDA r : ~Parseable(r)) = U

\* an undated observation completes the first run, and rows were cut
C4_Witness ==
    /\ pc = "cleaned"
    /\ \E name \in NamesIn(df) :
          LET S == Series(df, name)
              P == SelectSeq(S, Parseable)
              m == min_consecutive_months
          IN /\ P # <<>>
             /\ ~HasRun(P, m)
             /\ HasRun(S, m)
             /\ CutIndex(S, m) > 0
             /\ Len(OutputOf(cleaned, name)) < Len(S)

RowsOfId(table, appid) == SelectSeq(table, LAMBDA r : r.appid = appid)

\* C5: the cleaned observations of a game_id are those obtained from the
\* table that holds that game_id's observations alone, whatever other games
\* (a different game_id with the same game_name included) are present.
C5_PerGameIdIndependent ==
    CleanDone =>
        \A g \in {df[k].appid : k \in DOMAIN df} :
            ObsSeq(RowsOfId(cleaned, g))
                = ObsSeq(clean_game_data(RowsOfId(df, g), min_consecutive_months))

----------------------------------------------------------------------------
(* complete_scraper.py: fetch_history, scrape_all_games *)

Min(a, b) == IF a <= b THEN a ELSE b

\* c.get_text(strip=True).replace(',', '') on the cell texts of the model
RemoveCommas(text) ==
    CASE text = "1,500" -> "1500"
      [] text = "2,000" -> "2000"
      [] OTHER -> text

\* float(text) and int(text): defined on the decimal words (ValueError
\* elsewhere)
FloatOf == ("500" :> 500) @@ ("1500" :> 1500) @@ ("2000" :> 2000)
           @@ ("1500.0" :> 1500)
IntOfCell == ("500" :> 500) @@ ("1500" :> 1500) @@ ("2000" :> 2000)

IsPlaceholder(text) == text = "" \/ text = "-"

\* one <tr>: its <td> texts -> the rows appended for it (one or none)
ParseRow(appid, game_name, tr) ==
    LET cells == [k \in DOMAIN tr |-> RemoveCommas(tr[k])]
    IN IF Len(cells) >= MinCells
       THEN IF /\ IsPlaceholder(cells[2]) \/ cells[2] \in DOMAIN FloatOf
               /\ IsPlaceholder(cells[5]) \/ cells[5] \in DOMAIN IntOfCell
            THEN <<[appid |-> appid, game_name |-> game_name, month |-> cells[1],
                    avg_players |-> IF IsPlaceholder(cells[2]) THEN 0
                                    ELSE FloatOf[cells[2]],
                    peak_players |-> IF IsPlaceholder(cells[5]) THEN 0
                                     ELSE IntOfCell[cells[5]]]>>
            ELSE <<>>
       ELSE <<>>

\* an extraction without the inner try: the first row that fails to parse
\* loses the whole page
ParsePage_AbortOnBadRow(appid, game_name, page) ==
    LET trs == IF page = <<>> THEN <<>> ELSE Tail(page)
    IN IF \E k \in DOMAIN trs :
              /\ Len(trs[k]) >= MinCells
              /\ ParseRow(appid, game_name, trs[k]) = <<>>
       THEN <<>>
       ELSE Flatten([k \in DOMAIN trs |-> ParseRow(appid, game_name, trs[k])])

\* soup.select("table.common-table tr")[1:] parsed row by row
ParsePage(appid, game_name, page) ==
    LET trs == IF page = <<>> THEN <<>> ELSE Tail(page)
    IN Flatten([k \in DOMAIN trs |-> ParseRow(appid, game_name, trs[k])])

\* a fetch_history whose handler lets a transport exception through
fetch_history_NoCatch(appid, game_name, resp) ==
    IF resp.kind = "exception"
    THEN [raised |-> TRUE, rows |-> <<>>, slept |-> FALSE]
    ELSE IF resp.status # 200
    THEN [raised |-> FALSE, rows |-> <<>>, slept |-> FALSE]
    ELSE [raised |-> FALSE, rows |-> ParsePage(appid, game_name, resp.page),
          slept |-> TRUE]

\* fetch_history on the answer resp to its request: whether it raised, the
\* rows it returned and whether it reached time.sleep(0.5)
fetch_history(appid, game_name, resp) ==
    IF resp.kind = "exception"
    THEN [raised |-> FALSE, rows |-> <<>>, slept |-> FALSE]
    ELSE IF resp.status # 200
    THEN [raised |-> FALSE, rows |-> <<>>, slept |-> FALSE]
    ELSE [raised |-> FALSE, rows |-> ParsePage(appid, game_name, resp.page),
          slept |-> TRUE]

\* the events of the log
GetTop == [kind |-> "get_top", appid |-> 0, ms |-> 0]
GetApp(appid) == [kind |-> "get_app", appid |-> appid, ms |-> 0]
Sleep == [kind |-> "sleep", appid |-> 0, ms |-> SleepMs]

(* Inputs of the Fetcher *)

ListedGames == {<<10, "X">>, <<20, "Y">>}

HeaderRow == <<>>
GoodRow == <<"January 2020", "1,500", "+5", "+1%", "2,000">>
RollingRow == <<"Last 30 Days", "500", "-", "-", "">>
ShortRow == <<"February 2020", "500">>
BadRow == <<"February 2020", "abc", "-", "-", "500">>

Pages == {<<>>,
          <<HeaderRow>>,
          <<HeaderRow, RollingRow, GoodRow>>,
          <<HeaderRow, BadRow, GoodRow, ShortRow>>}

Responses ==
    {[kind |-> "exception", status |-> 0, page |-> <<>>],
     [kind |-> "response", status |-> 404, page |-> <<>>]}
    \cup {[kind |-> "response", status |-> 200, page |-> p] : p \in Pages}

\* the Cleaner before it is started
CleanerIdle ==
    /\ df = <<>>
    /\ min_consecutive_months = 1
    /\ cleaned = <<>>
    /\ recleaned = <<>>

InitScrape ==
    /\ pc = "scrape"
    /\ CleanerIdle
    /\ LoaderIdle
    /\ listing \in SeqsUpTo(ListedGames, MaxGames)
    /\ limit \in 0..MaxGames
    /\ games = <<>>
    /\ fetched = 0
    /\ hist = <<>>
    /\ events = <<>>
    /\ responses = <<>>
    /\ scraped = <<>>
    /\ page_game = <<0, "">>
    /\ detail_page = <<>>
    /\ extracted = <<>>

\* lines 46-55: the listing request answered, the links read, the limit
\* applied
FetchListing ==
    /\ pc = "scrape"
    /\ events' = Append(events, GetTop)
    /\ games' = IF limit # 0 THEN SubSeq(listing, 1, Min(limit, Len(listing)))
                ELSE listing
    /\ pc' = "loop"
    /\ UNCHANGED <<cleanerVars, loaderVars, extractVars, listing, limit, fetched, hist, responses, scraped>>

\* line 46: requests.get raises; nothing catches it
FetchListingRaises ==
    /\ pc = "scrape"
    /\ events' = Append(events, GetTop)
    /\ pc' = "raised"
    /\ UNCHANGED <<cleanerVars, loaderVars, extractVars, listing, limit, games, fetched, hist, responses,
                   scraped>>

\* lines 59-63: one iteration of the loop, the server answering resp
FetchNext ==
    /\ pc = "loop"
    /\ fetched < Len(games)
    /\ \E resp \in Responses :
          LET g == games[fetched + 1]
              r == fetch_history(g[1], g[2], resp)
          IN /\ events' = events \o <<GetApp(g[1])>>
                                 \o (IF r.slept THEN <<Sleep>> ELSE <<>>)
             /\ responses' = Append(responses, resp)
             /\ IF r.raised
                THEN /\ pc' = "raised"
                     /\ UNCHANGED <<hist, fetched>>
                ELSE /\ pc' = "loop"
                     /\ hist' = hist \o r.rows
                     /\ fetched' = fetched + 1
    /\ UNCHANGED <<cleanerVars, loaderVars, extractVars, listing, limit, games, scraped>>

\* lines 66-69: the DataFrame built from hist and returned
BuildFrame ==
    /\ pc = "loop"
    /\ fetched = Len(games)
    /\ scraped' = hist
    /\ pc' = "scraped"
    /\ UNCHANGED <<cleanerVars, loaderVars, extractVars, listing, limit, games, fetched, hist, events,
                   responses>>

NextScrape == FetchListing \/ FetchListingRaises \/ FetchNext \/ BuildFrame

\* every request made is answered or fails (the run is sequential and goes
\* on as soon as requests.get returns or raises)
SpecScrape == InitScrape /\ [][NextScrape]_vars /\ WF_vars(NextScrape)

----------------------------------------------------------------------------
(* Properties of the Fetcher *)

IsRequest(e) == e.kind \in {"get_top", "get_app"}

\* C6: a delay of at least 500 ms lies between every two consecutive HTTP
\* requests of a run: between the listing request and the first detail
\* request and between each detail request and the next, whatever the
\* earlier request's outcome.
C6_DelayBetweenRequests ==
    \A k \in 1..(Len(events) - 1) :
        IsRequest(events[k]) =>
            /\ events[k + 1].kind = "sleep"
            /\ events[k + 1].ms >= 500

DetailRequests == SelectSeq(events, LAMBDA e : e.kind = "get_app")

Succeeded(resp) == resp.kind = "response" /\ resp.status = 200

LimitedListing ==
    IF limit = 0 \/ limit >= Len(listing) THEN listing
    ELSE [k \in 1..limit |-> listing[k]]

\* the records of the first n listed games, failed fetches giving none
RecordsOfFirst(n) ==
    Flatten([k \in 1..n |->
                IF Succeeded(responses[k])
                THEN ParsePage(games[k][1], games[k][2], responses[k].page)
                ELSE <<>>])

C7_Isolation ==
    /\ pc = "raised" => (fetched = 0 /\ responses = <<>>)
    /\ pc \in {"loop", "scraped"} =>
          /\ games = LimitedListing
          /\ fetched <= Len(games)
          /\ Len(responses) = fetched
          /\ DetailRequests = [k \in 1..fetched |-> GetApp(games[k][1])]
          /\ hist = RecordsOfFirst(fetched)
    /\ pc = "scraped" =>
          /\ fetched = Len(games)
          /\ scraped = RecordsOfFirst(Len(games))

\* C7: whatever the detail pages answer (200, another status, a transport
\* exception), fetch_history never raises and returns nothing for a failed
\* game; every listed game is requested exactly once, in listing order,
\* with no retry; the run terminates and the table holds exactly the
\* records of the games fetched successfully, grouped in listing order.
C7_FailureIsolation ==
    /\ []C7_Isolation
    /\ <>(pc \in {"scraped", "raised"})

\* a run that ended after a failed first game and a successful second one
C7_Witness ==
    /\ pc = "scraped"
    /\ Len(games) >= 2
    /\ games[1][1] # games[2][1]
    /\ ~Succeeded(responses[1])
    /\ Succeeded(responses[2])
    /\ scraped # <<>>
    /\ \A k \in DOMAIN scraped : scraped[k].appid = games[2][1]

----------------------------------------------------------------------------
(* csv_to_sqlite.py: parse_month_year, import_csv_to_sqlite,               *)
(* create_summary_views                                                    *)

NoDate == <<None, None>>

\* "Last 30 Days" in month_str, on the labels of the model
ContainsLast30Days(label) == label = "Last 30 Days"

\* month_mapping.get(month_name, 1)
month_mapping_get(month_name) ==
    IF month_name \in Range(MonthNames) THEN MonthNumber(month_name) ELSE 1

\* parse_month_year(month_str) at the date today: <<year, month_num>>, or
\* <<None, None>>
parse_month_year(month_str, today) ==
    IF ContainsLast30Days(month_str) THEN today
    ELSE LET parts == split(month_str)
         IN IF Len(parts) >= 2
            THEN IF parts[2] \in DOMAIN IntOf
                 THEN <<IntOf[parts[2]], month_mapping_get(parts[1])>>
                 ELSE NoDate
            ELSE NoDate

\* df[['appid', 'game_name']].drop_duplicates(): first occurrences, in order
RECURSIVE drop_duplicates(_)
drop_duplicates(s) ==
    IF s = <<>> THEN <<>>
    ELSE LET rest == drop_duplicates(SubSeq(s, 1, Len(s) - 1))
             last == s[Len(s)]
         IN IF last \in Range(rest) THEN rest ELSE Append(rest, last)

GamesFrame(table) ==
    drop_duplicates([k \in DOMAIN table |->
                        [appid |-> table[k].appid,
                         game_name |-> table[k].game_name]])

\* lines 96-104: the derived columns added, the rows without them dropped
HistoryFrame(table, today) ==
    LET withDate ==
            [k \in DOMAIN table |->
                LET ym == parse_month_year(table[k].month, today)
                IN [appid |-> table[k].appid, month |-> table[k].month,
                    avg_players |-> table[k].avg_players,
                    peak_players |-> table[k].peak_players,
                    year |-> ym[1], month_num |-> ym[2]]]
    IN SelectSeq(withDate, LAMBDA r : r.year # None /\ r.month_num # None)

SetMax(S) == CHOOSE x \in S : \A y \in S : y <= x

\* the SELECT of view latest_player_data, as the set of its rows
latest_player_data(g_rows, ph_rows) ==
    {[game_name |-> g.game_name, appid |-> g.appid, month |-> ph.month,
      avg_players |-> ph.avg_players, peak_players |-> ph.peak_players,
      year |-> ph.year] :
        <<g, ph>> \in
            {<<g, ph>> \in Range(g_rows) \X Range(ph_rows) :
                /\ g.appid = ph.appid
                /\ LET ph2 == {r \in Range(ph_rows) : r.appid = ph.appid}
                   IN /\ ph.year = SetMax({r.year : r \in ph2})
                      /\ ph.month_num = SetMax({r.month_num : r \in ph2})}}

(* Inputs of the Store Loader *)

LoaderGames == {<<1, "A">>, <<1, "B">>, <<2, "B">>}
LoaderLabels == {"December 2019", "January 2020", "Last 30 Days", "Foo 2020",
                 "Sept", "2020 January", "January 2020 update"}
LoaderRows ==
    {Observation(g, l, 500, 1000) : g \in LoaderGames, l \in LoaderLabels}
CurrentDates == {<<2020, 2>>, <<2021, 1>>}

InitLoad ==
    /\ pc = "import"
    /\ CleanerIdle
    /\ ScraperIdle
    /\ csv_exists \in BOOLEAN
    /\ csv \in SeqsUpTo(LoaderRows, MaxCsvRows)
    /\ now \in CurrentDates
    /\ games_key = FALSE
    /\ games_table = <<>>
    /\ player_history = <<>>
    /\ latest_view = {}

\* lines 72-74: no CSV file, nothing is done
MissingFile ==
    /\ pc = "import"
    /\ ~csv_exists
    /\ pc' = "not_found"
    /\ UNCHANGED <<cleanerVars, scraperVars, loaderVars>>

\* lines 77-84: the CSV read, the schema created (games.appid PRIMARY KEY)
CreateSchema ==
    /\ pc = "import"
    /\ csv_exists
    /\ games_key' = TRUE
    /\ pc' = "schema"
    /\ UNCHANGED <<cleanerVars, scraperVars, csv_exists, csv, now, games_table,
                   player_history, latest_view>>

\* lines 88-89: to_sql(if_exists='replace') drops games and creates it
\* again from the frame's columns, without a key
WriteGames ==
    /\ pc = "schema"
    /\ games_table' = GamesFrame(csv)
    /\ games_key' = FALSE
    /\ pc' = "games"
    /\ UNCHANGED <<cleanerVars, scraperVars, csv_exists, csv, now,
                   player_history, latest_view>>

\* lines 96-107
WriteHistory ==
    /\ pc = "games"
    /\ player_history' = HistoryFrame(csv, now)
    /\ pc' = "history"
    /\ UNCHANGED <<cleanerVars, scraperVars, csv_exists, csv, now, games_key,
                   games_table, latest_view>>

\* lines 111-114: the views created; latest_view is what a query of
\* latest_player_data then returns
CreateViews ==
    /\ pc = "history"
    /\ latest_view' = latest_player_data(games_table, player_history)
    /\ pc' = "imported"
    /\ UNCHANGED <<cleanerVars, scraperVars, csv_exists, csv, now, games_key,
                   games_table, player_history>>

NextLoad == MissingFile \/ CreateSchema \/ WriteGames \/ WriteHistory \/ CreateViews

SpecLoad == InitLoad /\ [][NextLoad]_vars

----------------------------------------------------------------------------
(* Properties of the Store Loader *)

\* a label '<MonthName> <year>'
WellFormed(label) ==
    LET parts == split(label)
    IN /\ Len(parts) = 2
       /\ parts[1] \in Range(MonthNames)
       /\ parts[2] \in YearWords

Recognized(label) == WellFormed(label) \/ label = "Last 30 Days"

\* C8: parse_month_year gives (year, month number) for a well-formed label,
\* the current (year, month) for 'Last 30 Days' and (None, None) for every
\* other label; an observation with an unrecognized label is absent from
\* player_history while its game's row stays in games.
C8_UnrecognizedLabelsDropped ==
    pc = "imported" =>
        \A k \in DOMAIN csv :
            LET label == csv[k].month
            IN /\ parse_month_year(label, now) =
                    IF WellFormed(label)
                    THEN <<IntOf[split(label)[2]], MonthNumber(split(label)[1])>>
                    ELSE IF label = "Last 30 Days" THEN now
                    ELSE NoDate
               /\ ~Recognized(label) =>
                      \A j \in DOMAIN player_history :
                          ~(/\ player_history[j].appid = csv[k].appid
                            /\ player_history[j].month = label)
               /\ \E j \in DOMAIN games_table :
                      games_table[j].appid = csv[k].appid

HistoryOf(appid) == {r \in Range(player_history) : r.appid = appid}

\* (y1, m1) is not later than (y2, m2), year first
NotLater(r1, r2) ==
    r1.year < r2.year \/ (r1.year = r2.year /\ r1.month_num <= r2.month_num)

LatestOf(appid) ==
    {r \in HistoryOf(appid) : \A r2 \in HistoryOf(appid) : NotLater(r2, r)}

\* C9: for every game with a row in player_history, latest_player_data
\* holds the game's rows whose (year, month_num) is the chronologically
\* greatest of the game, and no other row of the game.
C9_LatestPerGame ==
    pc = "imported" =>
        \A a \in {r.appid : r \in Range(player_history)} :
            {[appid |-> v.appid, month |-> v.month, year |-> v.year] :
                v \in {v \in latest_view : v.appid = a}}
            = {[appid |-> r.appid, month |-> r.month, year |-> r.year] :
                r \in LatestOf(a)}

\* C10: after the import games holds exactly one row for each appid of the
\* input, appid being a key of games, and every appid of player_history
\* has a row in games.
C10_GamesKeyedByAppid ==
    pc = "imported" =>
        /\ \A a \in {csv[k].appid : k \in DOMAIN csv} :
              Cardinality({j \in DOMAIN games_table : games_table[j].appid = a}) = 1
        /\ \A j \in DOMAIN games_table :
              games_table[j].appid \in {csv[k].appid : k \in DOMAIN csv}
        /\ \A j \in DOMAIN player_history :
              \E i \in DOMAIN games_table :
                  games_table[i].appid = player_history[j].appid

----------------------------------------------------------------------------
(* complete_scraper.py: fetch_history on one detail page answered 200 *)

DecimalAvgRow == <<"March 2020", "1500.0", "+5", "+1%", "2,000">>
DecimalPeakRow == <<"March 2020", "1,500", "+5", "+1%", "1500.0">>
BadPeakRow == <<"January 2020", "500", "-", "-", "abc">>
LongRow == <<"February 2020", "-", "-", "-", "500", "extra">>

RowKinds == {HeaderRow, GoodRow, RollingRow, ShortRow, BadRow, DecimalAvgRow,
             DecimalPeakRow, BadPeakRow, LongRow}

\* the <tr> of table.common-table: a first one and up to MaxPageRows more
DetailPages == SeqsUpTo(RowKinds, MaxPageRows + 1)

InitExtract ==
    /\ pc = "extract"
    /\ CleanerIdle
    /\ LoaderIdle
    /\ listing = <<>>
    /\ limit = 0
    /\ games = <<>>
    /\ fetched = 0
    /\ hist = <<>>
    /\ events = <<>>
    /\ responses = <<>>
    /\ scraped = <<>>
    /\ page_game \in ListedGames
    /\ detail_page \in DetailPages
    /\ extracted = <<>>

\* lines 6-35: fetch_history(appid, game_name), the request answered 200
\* with the page
Extract ==
    /\ pc = "extract"
    /\ extracted' =
          fetch_history(page_game[1], page_game[2],
                        [kind |-> "response", status |-> 200, page |-> detail_page]).rows
    /\ pc' = "extracted"
    /\ UNCHANGED <<cleanerVars, loaderVars, listing, limit, games, fetched, hist,
                   events, responses, scraped, page_game, detail_page>>

NextExtract == Extract

SpecExtract == InitExtract /\ [][NextExtract]_vars

----------------------------------------------------------------------------
(* Properties of the record extraction.  The table rows are the <tr> after *)
(* the first one, which the code skips as the header.  A cell is numeric   *)
(* for its column when float() (average) or int() (peak) reads it.         *)

DataRows(p) == IF p = <<>> THEN <<>> ELSE Tail(p)

AvgCell(tr) == RemoveCommas(tr[2])
PeakCell(tr) == RemoveCommas(tr[5])

\* the row has the cells and both numeric cells are placeholders or numbers
Survives(tr) ==
    /\ Len(tr) >= 5
    /\ IsPlaceholder(AvgCell(tr)) \/ AvgCell(tr) \in DOMAIN FloatOf
    /\ IsPlaceholder(PeakCell(tr)) \/ PeakCell(tr) \in DOMAIN IntOfCell

\* the Observation of a surviving row for game g
ObservationOf(g, tr) ==
    Observation(g, tr[1],
                IF IsPlaceholder(AvgCell(tr)) THEN 0 ELSE FloatOf[AvgCell(tr)],
                IF IsPlaceholder(PeakCell(tr)) THEN 0 ELSE IntOfCell[PeakCell(tr)])

\* the sequence s without its k-th element
Without(s, k) == SubSeq(s, 1, k - 1) \o SubSeq(s, k + 1, Len(s))

\* C11: of the table rows of a page, a row with fewer than 5 cells is
\* skipped, an empty or '-' numeric cell becomes 0, a row whose average or
\* peak cell is not a number is dropped alone, every other row gives one
\* Observation with the given game identity; the output is the
\* Observations of the surviving rows in document order, and taking a bad
\* row out of the page changes nothing in it.
C11_RowIsolation ==
    pc = "extracted" =>
        LET trs == DataRows(detail_page)
            surviving == SelectSeq(trs, Survives)
        IN /\ extracted =
                [j \in DOMAIN surviving |-> ObservationOf(page_game, surviving[j])]
           /\ \A k \in DOMAIN trs :
                 ~Survives(trs[k]) =>
                     ParsePage(page_game[1], page_game[2],
                               <<detail_page[1]>> \o Without(trs, k)) = extracted

\* a page with a short row and a non-numeric row before a row with a
\* placeholder, all of them but the last two without an Observation
C11_Witness ==
    /\ pc = "extracted"
    /\ LET trs == DataRows(detail_page)
       IN /\ Len(trs) >= 3
          /\ \E i, j, k \in DOMAIN trs :
                /\ i < k /\ j < k
                /\ Len(trs[i]) < 5 /\ trs[i] # <<>>
                /\ Len(trs[j]) >= 5 /\ ~Survives(trs[j])
                /\ Survives(trs[k])
                /\ IsPlaceholder(PeakCell(trs[k]))
          /\ extracted # <<>>
          /\ Len(extracted) < Len(trs)
          /\ extracted[Len(extracted)].peak_players = 0

====
